---- MODULE Spec2Model ----
(***************************************************************************)
(* A model of the generic save/load engine (serializer_impl), of the three *)
(* archive adapters (archiver_wrapper<json>, archiver_wrapper<xml_node>,   *)
(* archiver_wrapper<multi_process_stream>) and of the polymorphic registry. *)
(*                                                                         *)
(* One save or one load is one step: the operators Save and Load compute   *)
(* the whole traversal, threading the archive through every adapter call   *)
(* in the order the code makes them.                                       *)
(***************************************************************************)
EXTENDS Integers, Sequences, FiniteSets, TLC

(***************************************************************************)
(* Bounds of the model.                                                    *)
(***************************************************************************)
MaxInt == 2        \* integer payloads are drawn from 1..MaxInt
MaxLen == 3        \* longest sequence container
MaxOuter == 2      \* longest container whose elements are containers
MaxThreadLen == 2  \* longest sequence a concurrent thread saves

(***************************************************************************)
(* Program constants.                                                      *)
(***************************************************************************)
max_depth == 1000
VALUE_NAME == "Value"
INDEX_NAME == "Index"
EMPTY_NAME == "null object!"
CLASS_NAME == "Class"
SIZE_NAME == "Size"
XML_CLASS_ATTR == "class"
XML_ITEM_TAG == "item"

(***************************************************************************)
(* Static types.  A type is a record whose field k names the category the  *)
(* classifier puts it in.                                                  *)
(***************************************************************************)
TInt == [k |-> "int"]
TStr == [k |-> "str"]
TMono == [k |-> "mono"]
TBool == [k |-> "bool"]
TSeq(e) == [k |-> "seq", elem |-> e]
TMap(kt, vt) == [k |-> "map", key |-> kt, val |-> vt]
TArray(e, n) == [k |-> "array", elem |-> e, n |-> n]
TVariant(alts) == [k |-> "variant", alts |-> alts]
TUnique(c) == [k |-> "unique", cls |-> c]
TShared(c) == [k |-> "shared", cls |-> c]
TObj(c) == [k |-> "obj", cls |-> c]
TOpt(e) == [k |-> "opt", elem |-> e]
TPair(a, b) == [k |-> "pair", elems |-> << a, b >>]
TTuple(ts) == [k |-> "tuple", elems |-> ts]
\* an enumeration whose underlying type is a signed integer of `bits` bits
TEnum(bits) == [k |-> "enum", bits |-> bits]

BaseSerializable(T) == T.k \in {"int", "str", "mono", "bool", "enum"}

(***************************************************************************)
(* The reflectable classes of the tests and their descriptors: the ordered *)
(* (member name, member type) entries that properties() returns.           *)
(***************************************************************************)
BaseCls == "test::test_serialization"
DerivedCls == "test::test_derived_serialization"
MessageIdCls == "test::MessageId"
HeaderCls == "test::Header"
BusinessCenterCls == "test::BusinessCenter"
BusinessCentersCls == "test::BusinessCenters"
DateAdjustmentsCls == "test::DateAdjustments"
IntCls == "int"                 \* an element type without a descriptor

OwnProperties(c) ==
    CASE c = BaseCls -> << [name |-> "d_", ty |-> TInt] >>
      [] c = DerivedCls -> << [name |-> "n_", ty |-> TStr] >>
      [] c = MessageIdCls -> << [name |-> "message_id_", ty |-> TStr],
                                [name |-> "scheme_", ty |-> TStr] >>
      [] c = HeaderCls -> << [name |-> "message_id_", ty |-> TObj(MessageIdCls)],
                             [name |-> "sent_by_", ty |-> TStr] >>
      [] c = BusinessCenterCls -> << [name |-> "center_", ty |-> TStr] >>
      [] c = BusinessCentersCls ->
            << [name |-> "centers_", ty |-> TSeq(TObj(BusinessCenterCls))] >>
      [] c = DateAdjustmentsCls ->
            << [name |-> "business_day_convention_", ty |-> TStr],
               [name |-> "business_centers_", ty |-> TObj(BusinessCentersCls)] >>

Parent(c) == IF c = DerivedCls THEN BaseCls ELSE ""

\* a derived descriptor that lists the type's own entries before the parent's
PropertiesOwnFirst(c) ==
    IF Parent(c) = "" THEN OwnProperties(c)
    ELSE OwnProperties(c) \o OwnProperties(Parent(c))

\* SERIALIZATION_MACRO / SERIALIZATION_MACRO_DERIVED: tuple_cat(parent, own)
Properties(c) ==
    IF Parent(c) = "" THEN OwnProperties(c)
    ELSE OwnProperties(Parent(c)) \o OwnProperties(c)

\* concept Reflectable: access::serializer::tuple<T>() is well formed
Reflectable(c) ==
    c \in {BaseCls, DerivedCls, MessageIdCls, HeaderCls,
           BusinessCenterCls, BusinessCentersCls, DateAdjustmentsCls}

\* std::is_default_constructible_v: the test classes' default constructors
\* are protected (test_serialization) and private (test_derived_serialization)
IsDefaultConstructible(T) == ~(T.k = "obj" /\ T.cls \in {BaseCls, DerivedCls})

\* std::is_polymorphic_v: the class has a virtual member
IsPolymorphic(c) == c \in {BaseCls, DerivedCls}

\* SERIALIZATION_REGISTER_DERIVED_SERIALIZATION(test_derived_serialization),
\* one registration in each of the three registries
Registry(b) == {DerivedCls}

(***************************************************************************)
(* Values.  Every value is a record whose field names tell its shape.      *)
(***************************************************************************)
VInt(n) == [i |-> n]
VStr(s) == [s |-> s]
VMono == [mono |-> TRUE]
VBool(b) == [b |-> b]
VSeq(q) == [seq |-> q]
VMap(q) == [map |-> q]          \* entries [key, val] in iteration order
VArr(q) == [arr |-> q]
VVar(i, v) == [index |-> i, value |-> v]
VNull == [null |-> TRUE]
VPtr(o) == [ptr |-> o]
VObj(c, f) == [cls |-> c, f |-> f]  \* dynamic class, member name -> value
VNone == [nullopt |-> TRUE]
VSome(v) == [some |-> v]
VTuple(q) == [tup |-> q]        \* std::get<I> is q[I + 1], for a pair too
\* an enumeration value, as the two 32-bit words of its underlying integer in
\* two's complement: the value is hi * 2^32 + (lo mod 2^32), and it lies in
\* the range of a 32-bit signed int exactly when hi is the sign of lo
VEnum(hi, lo) == [hi |-> hi, lo |-> lo]
SignWord(lo) == IF lo < 0 THEN -1 ELSE 0

\* static_cast<int>(obj): the low 32 bits of the underlying integer
enum_to_int(v) == v.lo
\* static_cast<T>(i): the int, sign-extended to the underlying type
int_to_enum(i) == VEnum(SignWord(i), i)

IsNull(v) == "null" \in DOMAIN v

RECURSIVE Default(_)
RECURSIVE DefaultFields(_, _)
DefaultFields(props, i) ==
    IF i > Len(props) THEN << >>
    ELSE (props[i].name :> Default(props[i].ty)) @@ DefaultFields(props, i + 1)

\* a value-initialised object of static type T
Default(T) ==
    CASE T.k = "int" -> VInt(0)
      [] T.k = "str" -> VStr("")
      [] T.k = "mono" -> VMono
      [] T.k = "bool" -> VBool(FALSE)
      [] T.k = "enum" -> VEnum(0, 0)
      [] T.k = "opt" -> VNone
      [] T.k \in {"pair", "tuple"} ->
            VTuple([j \in 1..Len(T.elems) |-> Default(T.elems[j])])
      [] T.k = "seq" -> VSeq(<< >>)
      [] T.k = "map" -> VMap(<< >>)
      [] T.k = "array" -> VArr([j \in 1..T.n |-> Default(T.elem)])
      [] T.k = "variant" -> VVar(0, Default(T.alts[1]))
      [] T.k = "unique" -> VNull
      [] T.k = "shared" -> VNull
      [] T.k = "obj" -> VObj(T.cls, DefaultFields(Properties(T.cls), 1))

(***************************************************************************)
(* The archive and the traversal's bookkeeping, threaded through a save or *)
(* a load as one record:                                                   *)
(*   b       the backing: "json", "xml" or "bin"                           *)
(*   json    the root of the nlohmann::ordered_json tree                   *)
(*   nodes   the pugixml document: node id -> node, id 1 the caller's root *)
(*   cached  archiver_wrapper<xml_node>::cached_node.node (0: null handle) *)
(*   stream  the slots of the multi_process_stream, rd the read cursor     *)
(*   err     the failure that aborted the call ("" when none)              *)
(*   ev      what the call did, in order                                   *)
(*   warn    SERIALIZATION_LOG_WARNING lines emitted                       *)
(*   depth   serialization_context::depth, peakDepth its largest value     *)
(*   calls   nested serialization::save/load calls now active, peakCalls   *)
(*           the deepest nesting reached                                   *)
(***************************************************************************)
JNull == [null |-> TRUE]
JNum(n) == [num |-> n]
JStr(s) == [str |-> s]
JBool(b) == [bool |-> b]
JArr(q) == [arr |-> q]
JObj(q) == [obj |-> q]          \* members [k, n] in insertion order

NoText == [none |-> TRUE]
TxtNum(n) == [num |-> n]        \* the decimal text of n
TxtChars(s) == [chars |-> s]

XNode(kind, name, parent) ==
    [kind |-> kind, name |-> name, attrs |-> << >>, kids |-> << >>,
     val |-> NoText, parent |-> parent]

Fresh(b) ==
    [b |-> b, json |-> JNull,
     nodes |-> << XNode("element", "root", 0) >>, cached |-> 0,
     stream |-> << >>, rd |-> 1,
     err |-> "", ev |-> << >>, warn |-> 0,
     depth |-> 0, peakDepth |-> 0, calls |-> 0, peakCalls |-> 0]

\* the archive the caller hands to the top-level save or load
TopRef(b) ==
    CASE b = "json" -> [path |-> << >>]
      [] b = "xml" -> [node |-> 1]
      [] b = "bin" -> [stream |-> TRUE]

R(A, r) == [A |-> A, r |-> r]
Fail(A, code) == [A EXCEPT !.err = code]
Log(A, e) == [A EXCEPT !.ev = Append(@, e)]
Failed(A) == A.err # ""

(***************************************************************************)
(* archiver_wrapper<json>.  A reference into the tree is the path to it:   *)
(* steps [i |-> index] and [k |-> key].                                    *)
(***************************************************************************)
JIsNull(n) == "null" \in DOMAIN n
JIsArr(n) == "arr" \in DOMAIN n
JIsObj(n) == "obj" \in DOMAIN n

JKeyPos(q, key) ==
    LET hits == {j \in 1..Len(q) : q[j].k = key}
    IN IF hits = {} THEN 0 ELSE CHOOSE j \in hits : \A h \in hits : j <= h

\* json::operator[](key) accepts null (which becomes an object) and objects
JKeyOk(n) == JIsNull(n) \/ JIsObj(n)
JEnsureKey(n, key) ==
    IF JIsNull(n) THEN JObj(<< [k |-> key, n |-> JNull] >>)
    ELSE IF JKeyPos(n.obj, key) # 0 THEN n
    ELSE JObj(Append(n.obj, [k |-> key, n |-> JNull]))

\* json::operator[](size_t) accepts null (which becomes an array) and arrays,
\* and fills an array with nulls up to the index asked for
JIdxOk(n) == JIsNull(n) \/ JIsArr(n)
JEnsureIdx(n, idx) ==
    LET old == IF JIsNull(n) THEN << >> ELSE n.arr
    IN JArr([j \in 1..(IF idx + 1 > Len(old) THEN idx + 1 ELSE Len(old)) |->
                IF j <= Len(old) THEN old[j] ELSE JNull])

RECURSIVE JAt(_, _)
JAt(n, p) ==
    IF p = << >> THEN n
    ELSE LET st == Head(p)
         IN IF "i" \in DOMAIN st THEN JAt(n.arr[st.i + 1], Tail(p))
            ELSE JAt(n.obj[JKeyPos(n.obj, st.k)].n, Tail(p))

RECURSIVE JPut(_, _, _)
JPut(n, p, new) ==
    IF p = << >> THEN new
    ELSE LET st == Head(p)
         IN IF "i" \in DOMAIN st
            THEN JArr([n.arr EXCEPT ![st.i + 1] = JPut(@, Tail(p), new)])
            ELSE JObj([n.obj EXCEPT ![JKeyPos(n.obj, st.k)].n = JPut(@, Tail(p), new)])

JHere(A, ref) == JAt(A.json, ref.path)
JSet(A, ref, new) == [A EXCEPT !.json = JPut(A.json, ref.path, new)]

\* push: archive = obj (monostate: archive = nullptr)
JsonPush(A, ref, T, v) ==
    JSet(A, ref, CASE T.k = "int" -> JNum(v.i)
                   [] T.k = "str" -> JStr(v.s)
                   [] T.k = "bool" -> JBool(v.b)
                   [] T.k = "mono" -> JNull)

\* pop: obj = archive.get<T>(), a type_error when the node holds another type
JsonPop(A, ref, T, y) ==
    LET n == JHere(A, ref)
    IN CASE T.k = "mono" -> R(A, VMono)
         [] T.k = "int" -> IF "num" \in DOMAIN n THEN R(A, VInt(n.num))
                           ELSE IF "bool" \in DOMAIN n
                                THEN R(A, VInt(IF n.bool THEN 1 ELSE 0))
                           ELSE R(Fail(A, "json.type_error"), y)
         [] T.k = "bool" -> IF "bool" \in DOMAIN n THEN R(A, VBool(n.bool))
                            ELSE R(Fail(A, "json.type_error"), y)
         [] T.k = "str" -> IF "str" \in DOMAIN n THEN R(A, VStr(n.str))
                           ELSE R(Fail(A, "json.type_error"), y)

JsonSetKey(A, ref, key, new) ==
    LET n == JHere(A, ref)
    IN IF ~JKeyOk(n) THEN Fail(A, "json.type_error")
       ELSE JSet(JSet(A, ref, JEnsureKey(n, key)),
                 [path |-> Append(ref.path, [k |-> key])], new)

\* archive["Class"] = name
JsonPushClassName(A, ref, name) == JsonSetKey(A, ref, CLASS_NAME, JStr(name))

JsonPopClassName(A, ref) ==
    LET n == JHere(A, ref)
        pos == IF JIsObj(n) THEN JKeyPos(n.obj, CLASS_NAME) ELSE 0
    IN IF pos = 0 THEN R([A EXCEPT !.warn = @ + 1], "")
       ELSE IF "str" \in DOMAIN n.obj[pos].n THEN R(A, n.obj[pos].n.str)
       ELSE R([A EXCEPT !.warn = @ + 1], "")

\* archive[index_name] = idx
JsonPushIndex(A, ref, name, idx) == JsonSetKey(A, ref, name, JNum(idx))

\* the mutable get overloads: archive[key], archive[idx]
JsonGetName(A, ref, key) ==
    LET n == JHere(A, ref)
    IN IF ~JKeyOk(n) THEN R(Fail(A, "json.type_error"), ref)
       ELSE R(JSet(A, ref, JEnsureKey(n, key)),
              [path |-> Append(ref.path, [k |-> key])])

JsonGetIdx(A, ref, idx) ==
    LET n == JHere(A, ref)
    IN IF ~JIdxOk(n) THEN R(Fail(A, "json.type_error"), ref)
       ELSE R(JSet(A, ref, JEnsureIdx(n, idx)),
              [path |-> Append(ref.path, [i |-> idx])])

\* archive[index_name].get<unsigned int>()
JsonPopIndex(A, ref, name) ==
    LET g == JsonGetName(A, ref, name)
    IN IF Failed(g.A) THEN R(g.A, 0)
       ELSE LET n == JHere(g.A, g.r)
            IN IF "num" \in DOMAIN n THEN R(g.A, n.num)
               ELSE R(Fail(g.A, "json.type_error"), 0)

\* resize is a no-op; size is json::size()
JsonResize(A, ref, n) == A
JsonSize(A, ref) ==
    LET n == JHere(A, ref)
    IN R(A, IF JIsNull(n) THEN 0
            ELSE IF JIsArr(n) THEN Len(n.arr)
            ELSE IF JIsObj(n) THEN Len(n.obj)
            ELSE 1)

(***************************************************************************)
(* archiver_wrapper<pugi::xml_node>.  An xml_node is a handle (a node id,  *)
(* 0 the null handle).  A reference to a handle is either the caller's own *)
(* handle [node |-> id] or the thread-local cached_node.node, which every  *)
(* get overwrites and returns by reference: [cached |-> TRUE].             *)
(***************************************************************************)
XDeref(A, ref) == IF "cached" \in DOMAIN ref THEN A.cached ELSE ref.node
CachedRef == [cached |-> TRUE]

\* pugi::xml_node::first_child / next_sibling / child(name)
XFirstChild(A, h) ==
    IF h = 0 \/ A.nodes[h].kids = << >> THEN 0 ELSE A.nodes[h].kids[1]

XNextSibling(A, c) ==
    IF c = 0 \/ A.nodes[c].parent = 0 THEN 0
    ELSE LET sibs == A.nodes[A.nodes[c].parent].kids
             pos == CHOOSE j \in 1..Len(sibs) : sibs[j] = c
         IN IF pos < Len(sibs) THEN sibs[pos + 1] ELSE 0

XChild(A, h, name) ==
    IF h = 0 THEN 0
    ELSE LET kids == A.nodes[h].kids
             hits == {j \in 1..Len(kids) : A.nodes[kids[j]].kind = "element"
                                           /\ A.nodes[kids[j]].name = name}
         IN IF hits = {} THEN 0
            ELSE kids[CHOOSE j \in hits : \A g \in hits : j <= g]

\* pugi::xml_node::append_child: the null handle takes no child
XAppendNode(A, h, kind, name) ==
    IF h = 0 THEN R(A, 0)
    ELSE LET id == Len(A.nodes) + 1
         IN R([A EXCEPT !.nodes = Append([@ EXCEPT ![h].kids = Append(@, id)],
                                         XNode(kind, name, h))],
              id)
XAppendChild(A, h, name) == XAppendNode(A, h, "element", name)

\* pugi::xml_text: the first pcdata child of the element holds its text
XTextNode(A, h) ==
    IF h = 0 THEN 0
    ELSE LET kids == A.nodes[h].kids
             hits == {j \in 1..Len(kids) : A.nodes[kids[j]].kind = "pcdata"}
         IN IF hits = {} THEN 0
            ELSE kids[CHOOSE j \in hits : \A g \in hits : j <= g]

XTextSet(A, h, tok) ==
    IF h = 0 THEN A
    ELSE IF XTextNode(A, h) # 0
         THEN [A EXCEPT !.nodes[XTextNode(A, h)].val = tok]
    ELSE LET a == XAppendNode(A, h, "pcdata", "")
         IN [a.A EXCEPT !.nodes[a.r].val = tok]

XText(A, h) == IF XTextNode(A, h) = 0 THEN NoText ELSE A.nodes[XTextNode(A, h)].val

\* as_llong / as_uint: the number the text spells, 0 when it spells none
AsNumber(tok) == IF "num" \in DOMAIN tok THEN tok.num ELSE 0
\* as_string: the characters of the text, "" when there is none
DecimalText(n) == CASE n = 0 -> "0" [] n = 1 -> "1" [] n = 2 -> "2" [] n = 3 -> "3"
                    [] n = 4 -> "4" [] OTHER -> "5"
AsString(tok) ==
    IF "chars" \in DOMAIN tok THEN tok.chars
    ELSE IF "num" \in DOMAIN tok THEN DecimalText(tok.num)
    ELSE ""
\* text().set(bool) writes "true" or "false"; as_bool: the text begins with
\* one of 1, t, T, y, Y
BoolText(b) == IF b THEN "true" ELSE "false"
AsBool(tok) == AsString(tok) \in {"true", "1"}

\* append_attribute(name).set_value(v): always appends, also when an
\* attribute of that name is there already
XAppendAttribute(A, h, name, tok) ==
    IF h = 0 THEN A
    ELSE [A EXCEPT !.nodes[h].attrs = Append(@, [n |-> name, v |-> tok])]

\* attribute(name): the first attribute of that name
XAttribute(A, h, name) ==
    IF h = 0 THEN NoText
    ELSE LET as == A.nodes[h].attrs
             hits == {j \in 1..Len(as) : as[j].n = name}
         IN IF hits = {} THEN NoText
            ELSE as[CHOOSE j \in hits : \A g \in hits : j <= g].v

XmlPush(A, ref, T, v) ==
    CASE T.k = "int" -> XTextSet(A, XDeref(A, ref), TxtNum(v.i))
      [] T.k = "str" -> XTextSet(A, XDeref(A, ref), TxtChars(v.s))
      [] T.k = "bool" -> XTextSet(A, XDeref(A, ref), TxtChars(BoolText(v.b)))
      [] T.k = "mono" -> A

XmlPop(A, ref, T, y) ==
    LET tok == XText(A, XDeref(A, ref))
    IN CASE T.k = "int" -> R(A, VInt(AsNumber(tok)))
         [] T.k = "str" -> R(A, VStr(AsString(tok)))
         [] T.k = "bool" -> R(A, VBool(AsBool(tok)))
         [] T.k = "mono" -> R(A, VMono)

XmlPushClassName(A, ref, name) ==
    XAppendAttribute(A, XDeref(A, ref), XML_CLASS_ATTR, TxtChars(name))

XmlPopClassName(A, ref) ==
    LET tok == XAttribute(A, XDeref(A, ref), XML_CLASS_ATTR)
    IN IF "none" \in DOMAIN tok THEN R([A EXCEPT !.warn = @ + 1], "")
       ELSE R(A, AsString(tok))

XmlPushIndex(A, ref, name, idx) ==
    XAppendAttribute(A, XDeref(A, ref), name, TxtNum(idx))

XmlPopIndex(A, ref, name) == R(A, AsNumber(XAttribute(A, XDeref(A, ref), name)))

\* get(xml_node& archive, string_view idx):
\*   cached_node.node = archive.child(idx);
\*   if (!cached_node.node) cached_node.node = archive.append_child(idx);
\* archive is read again after the first assignment
XmlGetName(A, ref, name) ==
    LET A1 == [A EXCEPT !.cached = XChild(A, XDeref(A, ref), name)]
    IN IF A1.cached # 0 THEN R(A1, CachedRef)
       ELSE LET a == XAppendChild(A1, XDeref(A1, ref), name)
            IN R([a.A EXCEPT !.cached = a.r], CachedRef)

\* get(xml_node& archive, size_t idx): the walk over the children, then
\* cached_node.node = child
RECURSIVE XWalk(_, _, _, _, _)
XWalk(A, h, child, i, idx) ==
    IF i >= idx THEN R(A, child)
    ELSE IF child = 0
         THEN LET a == XAppendChild(A, h, XML_ITEM_TAG)
              IN XWalk(a.A, h, a.r, i + 1, idx)
    ELSE XWalk(A, h, XNextSibling(A, child), i + 1, idx)

XmlGetIdx(A, ref, idx) ==
    LET h == XDeref(A, ref)
        w == XWalk(A, h, XFirstChild(A, h), 0, idx)
        a == IF w.r = 0 THEN XAppendChild(w.A, h, XML_ITEM_TAG) ELSE w
    IN R([a.A EXCEPT !.cached = a.r], CachedRef)

XmlResize(A, ref, n) == XAppendAttribute(A, XDeref(A, ref), SIZE_NAME, TxtNum(n))

XmlSize(A, ref) ==
    LET h == XDeref(A, ref)
        tok == XAttribute(A, h, SIZE_NAME)
    IN IF "none" \notin DOMAIN tok THEN R(A, AsNumber(tok))
       ELSE R(A, IF h = 0 THEN 0 ELSE Len(A.nodes[h].kids))

(***************************************************************************)
(* archiver_wrapper<multi_process_stream>.  The stream is strictly         *)
(* positional: operator<< appends a slot, operator>> reads the slot under  *)
(* the read cursor and advances it.  Every get returns the stream itself.  *)
(***************************************************************************)
StreamRef == [stream |-> TRUE]

BinWrite(A, slot) == [A EXCEPT !.stream = Append(@, slot)]

\* reads the next slot as a `kind`; a read past the end, or of a slot that
\* was written as another kind, is a failure of the backing
BinRead(A, kind, dflt) ==
    IF A.rd > Len(A.stream) THEN R(Fail(A, "stream.underflow"), dflt)
    ELSE IF kind \notin DOMAIN A.stream[A.rd] THEN R(Fail(A, "stream.decode"), dflt)
    ELSE R([A EXCEPT !.rd = @ + 1], A.stream[A.rd][kind])

BinPush(A, ref, T, v) ==
    CASE T.k = "int" -> BinWrite(A, [int |-> v.i])
      [] T.k = "str" -> BinWrite(A, [str |-> v.s])
      [] T.k = "bool" -> BinWrite(A, [bool |-> v.b])
      [] T.k = "enum" -> BinWrite(A, [int |-> enum_to_int(v)])
      [] T.k = "mono" -> BinWrite(A, [u8 |-> 0])

BinPop(A, ref, T, y) ==
    CASE T.k = "int" -> LET g == BinRead(A, "int", 0)
                        IN R(g.A, IF Failed(g.A) THEN y ELSE VInt(g.r))
      [] T.k = "str" -> LET g == BinRead(A, "str", "")
                        IN R(g.A, IF Failed(g.A) THEN y ELSE VStr(g.r))
      [] T.k = "bool" -> LET g == BinRead(A, "bool", FALSE)
                         IN R(g.A, IF Failed(g.A) THEN y ELSE VBool(g.r))
      [] T.k = "enum" -> LET g == BinRead(A, "int", 0)
                         IN R(g.A, int_to_enum(g.r))
      [] T.k = "mono" -> R(BinRead(A, "u8", 0).A, VMono)

BinPushClassName(A, ref, name) == BinWrite(A, [str |-> name])
BinPopClassName(A, ref) == BinRead(A, "str", "")
BinPushIndex(A, ref, name, idx) == BinWrite(A, [u32 |-> idx])
BinPopIndex(A, ref, name) == BinRead(A, "u32", 0)
BinGetName(A, ref, name) == R(A, StreamRef)
BinGetIdx(A, ref, idx) == R(A, StreamRef)
BinResize(A, ref, n) == BinWrite(A, [u32 |-> n])
BinSize(A, ref) == BinRead(A, "u32", 0)

(***************************************************************************)
(* archiver_wrapper<Archiver>::op, resolved on the backing.                *)
(***************************************************************************)
Push(A, ref, T, v) ==
    CASE A.b = "json" -> JsonPush(A, ref, T, v)
      [] A.b = "xml" -> XmlPush(A, ref, T, v)
      [] A.b = "bin" -> BinPush(A, ref, T, v)

Pop(A, ref, T, y) ==
    CASE A.b = "json" -> JsonPop(A, ref, T, y)
      [] A.b = "xml" -> XmlPop(A, ref, T, y)
      [] A.b = "bin" -> BinPop(A, ref, T, y)

PushClassName(A, ref, name) ==
    CASE A.b = "json" -> JsonPushClassName(A, ref, name)
      [] A.b = "xml" -> XmlPushClassName(A, ref, name)
      [] A.b = "bin" -> BinPushClassName(A, ref, name)

PopClassName(A, ref) ==
    CASE A.b = "json" -> JsonPopClassName(A, ref)
      [] A.b = "xml" -> XmlPopClassName(A, ref)
      [] A.b = "bin" -> BinPopClassName(A, ref)

PushIndex(A, ref, name, idx) ==
    CASE A.b = "json" -> JsonPushIndex(A, ref, name, idx)
      [] A.b = "xml" -> XmlPushIndex(A, ref, name, idx)
      [] A.b = "bin" -> BinPushIndex(A, ref, name, idx)

PopIndex(A, ref, name) ==
    CASE A.b = "json" -> JsonPopIndex(A, ref, name)
      [] A.b = "xml" -> XmlPopIndex(A, ref, name)
      [] A.b = "bin" -> BinPopIndex(A, ref, name)

GetName(A, ref, name) ==
    CASE A.b = "json" -> JsonGetName(A, ref, name)
      [] A.b = "xml" -> XmlGetName(A, ref, name)
      [] A.b = "bin" -> BinGetName(A, ref, name)

GetIdx(A, ref, idx) ==
    CASE A.b = "json" -> JsonGetIdx(A, ref, idx)
      [] A.b = "xml" -> XmlGetIdx(A, ref, idx)
      [] A.b = "bin" -> BinGetIdx(A, ref, idx)

Resize(A, ref, n) ==
    CASE A.b = "json" -> JsonResize(A, ref, n)
      [] A.b = "xml" -> XmlResize(A, ref, n)
      [] A.b = "bin" -> BinResize(A, ref, n)

Size(A, ref) ==
    CASE A.b = "json" -> JsonSize(A, ref)
      [] A.b = "xml" -> XmlSize(A, ref)
      [] A.b = "bin" -> BinSize(A, ref)

(***************************************************************************)
(* Error handling.  SERIALIZATION_THROW(code, ...) is defined with an      *)
(* empty replacement list, so it and SERIALIZATION_CHECK expand to nothing: *)
(* the traversal goes on as if the condition held.                         *)
(***************************************************************************)
\* a macro that raises the failure it is given
SERIALIZATION_THROW_raising(A, code) == Fail(A, code)

SERIALIZATION_THROW(A, code) == A
SERIALIZATION_CHECK(A, condition, code) ==
    IF ~condition THEN SERIALIZATION_THROW(A, code) ELSE A

\* what the build makes of undefined behaviour: the process dies, or the
\* offending operation passes unnoticed
UBOutcomes == {"crash", "benign"}
Ev(e, c) == [e |-> e, c |-> c]

\* serialization::save / serialization::load enter serializer_impl directly:
\* no depth_guard is constructed, serialization_context::depth is not touched
Enter(A) ==
    [A EXCEPT !.calls = @ + 1,
              !.peakCalls = IF A.calls + 1 > @ THEN A.calls + 1 ELSE @]
Leave(A) == [A EXCEPT !.calls = @ - 1]

\* detail::polymorphic_type_name(obj): typeid(*obj) for a polymorphic static
\* type, else the static type's name
polymorphic_type_name(cls, obj) == IF IsPolymorphic(cls) THEN obj.cls ELSE cls

(***************************************************************************)
(* Save.                                                                   *)
(***************************************************************************)
RECURSIVE Save(_, _, _, _, _)
RECURSIVE SaveItems(_, _, _, _, _, _)
RECURSIVE SaveEntries(_, _, _, _, _, _)
RECURSIVE SaveProps(_, _, _, _, _, _)
RECURSIVE save_object(_, _, _, _, _)
RECURSIVE save_tuple_impl(_, _, _, _, _, _)

\* the element loops of save_container and of the std::array specialization
SaveItems(A, ref, E, q, i, ub) ==
    IF Failed(A) \/ i >= Len(q) THEN A
    ELSE LET g == GetIdx(A, ref, i)
         IN SaveItems(Save(g.A, g.r, E, q[i + 1], ub), ref, E, q, i + 1, ub)

save_container(A, ref, T, v, ub) ==
    SaveItems(Resize(A, ref, Len(v.seq)), ref, T.elem, v.seq, 0, ub)

\* save_associative_container, MapLike: key at i++, mapped value at i++
SaveEntries(A, ref, T, q, j, ub) ==
    IF Failed(A) \/ j >= Len(q) THEN A
    ELSE LET gk == GetIdx(A, ref, 2 * j)
             A1 == Save(gk.A, gk.r, T.key, q[j + 1].key, ub)
             gv == GetIdx(A1, ref, 2 * j + 1)
             A2 == IF Failed(A1) THEN A1
                   ELSE Save(gv.A, gv.r, T.val, q[j + 1].val, ub)
         IN SaveEntries(A2, ref, T, q, j + 1, ub)

save_associative_container(A, ref, T, v, ub) ==
    SaveEntries(Resize(A, ref, 2 * Len(v.map)), ref, T, v.map, 0, ub)

save_array(A, ref, T, v, ub) ==
    SaveItems(Resize(A, ref, T.n), ref, T.elem, v.arr, 0, ub)

save_variant(A, ref, T, v, ub) ==
    LET A1 == PushIndex(A, ref, INDEX_NAME, v.index)
        g == GetName(A1, ref, VALUE_NAME)
    IN IF Failed(A1) THEN A1
       ELSE Save(g.A, g.r, T.alts[v.index + 1], v.value, ub)

\* the for_sequence over the descriptor in save_object
SaveProps(A, ref, props, obj, i, ub) ==
    IF Failed(A) \/ i > Len(props) THEN A
    ELSE LET g == GetName(A, ref, props[i].name)
             A1 == Save(g.A, g.r, props[i].ty, obj.f[props[i].name], ub)
         IN SaveProps(IF Failed(A1) THEN A1
                      ELSE Log(A1, Ev("save_member", props[i].name)),
                      ref, props, obj, i + 1, ub)

save_object(A, ref, cls, objp, ub) ==
    IF IsNull(objp) THEN PushClassName(A, ref, EMPTY_NAME)
    ELSE LET A1 == PushClassName(A, ref, polymorphic_type_name(cls, objp.ptr))
         IN SaveProps(A1, ref, Properties(cls), objp.ptr, 1, ub)

\* serializer_impl<Archiver, UniquePointer T>::save
save_unique(A, ref, T, v, ub) ==
    LET A1 == SERIALIZATION_CHECK(A, ~IsNull(v), "NullPointer")
    IN IF Failed(A1) THEN A1
       ELSE IF IsNull(v)
            THEN \* *object on a null handle
                 LET A2 == Log(A1, Ev("deref_null", T.cls))
                 IN IF ub = "crash" THEN Fail(A2, "crash")
                    ELSE Save(A2, ref, TObj(T.cls), v, ub)
       ELSE Save(A1, ref, TObj(T.cls), v.ptr, ub)

\* serializer_impl<Archiver, SharedPointer T>::save: a reflectable element is
\* saved as the static element type, any other through the registry when its
\* name is registered
save_shared(A, ref, T, v, ub) ==
    IF IsNull(v) THEN PushClassName(A, ref, EMPTY_NAME)
    ELSE LET class_name == polymorphic_type_name(T.cls, v.ptr)
             A1 == PushClassName(A, ref, class_name)
         IN IF Reflectable(T.cls) THEN Save(A1, ref, TObj(T.cls), v.ptr, ub)
            ELSE IF class_name \in Registry(A.b)
                 THEN Save(A1, ref, TObj(class_name), v.ptr, ub)
            ELSE A1

\* serializer_impl<Archiver, OptionalLike T>::save: two positions declared,
\* the flag at 0, the value at 1 when there is one
save_optional(A, ref, T, v, ub) ==
    LET has_value == "some" \in DOMAIN v
        g0 == GetIdx(Resize(A, ref, 2), ref, 0)
        A1 == Save(g0.A, g0.r, TBool, VBool(has_value), ub)
        g1 == GetIdx(A1, ref, 1)
    IN IF Failed(A1) \/ ~has_value THEN A1
       ELSE Save(g1.A, g1.r, T.elem, v.some, ub)

\* the fold over the positions: save(get(archive, Is), std::get<Is>(tuple))
save_tuple_impl(A, ref, T, v, i, ub) ==
    IF Failed(A) \/ i >= Len(T.elems) THEN A
    ELSE LET g == GetIdx(A, ref, i)
         IN save_tuple_impl(Save(g.A, g.r, T.elems[i + 1], v.tup[i + 1], ub),
                            ref, T, v, i + 1, ub)

\* serializer_impl<Archiver, TupleLike T>::save
save_tuple(A, ref, T, v, ub) ==
    save_tuple_impl(Resize(A, ref, Len(T.elems)), ref, T, v, 0, ub)

\* serializer_impl<Archiver, std::pair<First, Second>>::save: first at 0,
\* second at 1, no resize
save_pair(A, ref, T, v, ub) == save_tuple_impl(A, ref, T, v, 0, ub)

\* serialization::save -> serializer_impl<Archiver, T>::save
Save(A, ref, T, v, ub) ==
    IF Failed(A) THEN A
    ELSE Leave(
      LET A0 == Enter(A)
      IN CASE BaseSerializable(T) -> Push(A0, ref, T, v)
           [] T.k = "seq" -> save_container(A0, ref, T, v, ub)
           [] T.k = "map" -> save_associative_container(A0, ref, T, v, ub)
           [] T.k = "array" -> save_array(A0, ref, T, v, ub)
           [] T.k = "variant" -> save_variant(A0, ref, T, v, ub)
           [] T.k = "unique" -> save_unique(A0, ref, T, v, ub)
           [] T.k = "shared" -> save_shared(A0, ref, T, v, ub)
           [] T.k = "opt" -> save_optional(A0, ref, T, v, ub)
           [] T.k = "pair" -> save_pair(A0, ref, T, v, ub)
           [] T.k = "tuple" -> save_tuple(A0, ref, T, v, ub)
           [] T.k = "obj" -> save_object(A0, ref, T.cls,
                                         IF IsNull(v) THEN v ELSE VPtr(v), ub))

(***************************************************************************)
(* Load.  Every loader returns R(archive, value): the archive as the load  *)
(* left it and the value the target holds when the call returns or throws. *)
(***************************************************************************)
RECURSIVE Load(_, _, _, _, _)
RECURSIVE LoadItems(_, _, _, _, _, _, _)
RECURSIVE LoadEntries(_, _, _, _, _, _, _)
RECURSIVE LoadArrayItems(_, _, _, _, _, _)
RECURSIVE LoadProps(_, _, _, _, _, _)
RECURSIVE load_tuple_impl(_, _, _, _, _, _)

\* the loop of load_container: emplace_back(), then load into the new element
LoadItemsNext(l, ref, E, acc, i, size, ub) ==
    LoadItems(l.A, ref, E, Append(acc, l.r), i + 1, size, ub)

LoadItems(A, ref, E, acc, i, size, ub) ==
    IF Failed(A) \/ i >= size THEN R(A, VSeq(acc))
    ELSE LET g == GetIdx(A, ref, i)
         IN LoadItemsNext(Load(g.A, g.r, E, Default(E), ub),
                          ref, E, acc, i, size, ub)

load_container(A, ref, T, y, ub) ==
    LET sz == Size(A, ref)
    IN IF Failed(sz.A) THEN R(sz.A, y)
       ELSE LoadItems(sz.A, ref, T.elem, << >>, 0, sz.r, ub)

\* std::map::emplace: an entry whose key is there already is dropped, the
\* entries stay ordered by key
emplace(q, key, val) ==
    IF \E j \in 1..Len(q) : q[j].key = key THEN q
    ELSE LET lo == SelectSeq(q, LAMBDA e : e.key.i < key.i)
             hi == SelectSeq(q, LAMBDA e : e.key.i > key.i)
         IN lo \o << [key |-> key, val |-> val] >> \o hi

\* the loop of load_associative_container, MapLike: size / 2 pairs, each
\* the key at 2i, then the mapped value at 2i + 1, then emplace
LoadEntryEmplace(key, lv, ref, T, acc, i, pairs, ub) ==
    IF Failed(lv.A) THEN R(lv.A, VMap(acc))
    ELSE LoadEntries(Log(lv.A, Ev("emplace", "")), ref, T,
                     emplace(acc, key, lv.r), i + 1, pairs, ub)

LoadEntryValue(lk, ref, T, acc, i, pairs, ub) ==
    IF Failed(lk.A) THEN R(lk.A, VMap(acc))
    ELSE LET gv == GetIdx(lk.A, ref, 2 * i + 1)
         IN LoadEntryEmplace(lk.r, Load(gv.A, gv.r, T.val, Default(T.val), ub),
                             ref, T, acc, i, pairs, ub)

LoadEntries(A, ref, T, acc, i, pairs, ub) ==
    IF Failed(A) \/ i >= pairs THEN R(A, VMap(acc))
    ELSE LET gk == GetIdx(A, ref, 2 * i)
         IN LoadEntryValue(Load(gk.A, gk.r, T.key, Default(T.key), ub),
                           ref, T, acc, i, pairs, ub)

load_associative_container(A, ref, T, y, ub) ==
    LET sz == Size(A, ref)
        A1 == SERIALIZATION_CHECK(sz.A, sz.r % 2 = 0, "SizeMismatch")
    IN IF Failed(sz.A) THEN R(sz.A, y)
       ELSE IF Failed(A1) THEN R(A1, VMap(<< >>))
       ELSE LoadEntries(A1, ref, T, << >>, 0, sz.r \div 2, ub)

\* the loop of the std::array loader: load into array[i] in place
LoadArrayNext(l, ref, T, arr, i, ub) ==
    LoadArrayItems(l.A, ref, T, [arr EXCEPT ![i + 1] = l.r], i + 1, ub)

LoadArrayItems(A, ref, T, arr, i, ub) ==
    IF Failed(A) \/ i >= T.n THEN R(A, VArr(arr))
    ELSE LET g == GetIdx(A, ref, i)
         IN LoadArrayNext(Load(Log(g.A, Ev("array_elem", "")), g.r, T.elem,
                               arr[i + 1], ub),
                          ref, T, arr, i, ub)

load_array(A, ref, T, y, ub) ==
    LET sz == Size(A, ref)
        A1 == SERIALIZATION_CHECK(sz.A, sz.r = T.n, "SizeMismatch")
    IN IF Failed(sz.A) \/ Failed(A1) THEN R(A1, y)
       ELSE LoadArrayItems(A1, ref, T, y.arr, 0, ub)

\* loaders[I]: variant = Types{} unless it holds the alternative already,
\* then load into std::get<Types>(variant)
Holding(l, index) == R(l.A, VVar(index, l.r))

\* a loader whose scratch object is not destroyed when the load throws
load_into_scratch_unguarded(l, y, index) ==
    IF Failed(l.A) THEN R(l.A, y)
    ELSE R(Log(Log(l.A, Ev("move_assign", "")), Ev("destruct", "")), VVar(index, l.r))

\* the loader of an alternative that is not default-constructible, after
\* placement_new: try { load(archive, *ptr); variant = std::move(*ptr); }
\* catch (...) { destruct(*ptr); throw; } destruct(*ptr);
load_into_scratch(l, y, index) ==
    IF l.A.err = "crash" THEN R(l.A, y)
    ELSE IF Failed(l.A) THEN R(Log(l.A, Ev("destruct", "catch")), y)
    ELSE R(Log(Log(l.A, Ev("move_assign", "")), Ev("destruct", "")), VVar(index, l.r))

\* loaders[index](get(archive, VALUE_NAME), variant): the table is indexed
\* first; an index past its end reads outside the array
load_variant(A, ref, T, y, ub) ==
    LET ix == PopIndex(A, ref, INDEX_NAME)
        A1 == SERIALIZATION_CHECK(ix.A, ix.r < Len(T.alts), "InvalidIndex")
    IN IF Failed(ix.A) \/ Failed(A1) THEN R(A1, y)
       ELSE IF ix.r >= Len(T.alts)
            THEN LET A2 == Log(A1, Ev("loaders_out_of_range", ""))
                 IN R(IF ub = "crash" THEN Fail(A2, "crash") ELSE A2, y)
       ELSE LET alt == T.alts[ix.r + 1]
                g == GetName(Log(A1, Ev("loader", "")), ref, VALUE_NAME)
            IN IF Failed(g.A) THEN R(g.A, y)
               ELSE IF IsDefaultConstructible(alt)
                    THEN Holding(Load(g.A, g.r, alt,
                                      IF y.index = ix.r THEN y.value ELSE Default(alt),
                                      ub),
                                 ix.r)
               ELSE load_into_scratch(Load(Log(g.A, Ev("placement_new", "")), g.r, alt,
                                           Default(alt), ub),
                                      y, ix.r)

\* the for_sequence over the descriptor in load_object
LoadPropsNext(l, ref, props, obj, i, ub) ==
    LoadProps(IF Failed(l.A) THEN l.A ELSE Log(l.A, Ev("member", props[i].name)),
              ref, props, [obj EXCEPT !.f[props[i].name] = l.r], i + 1, ub)

LoadProps(A, ref, props, obj, i, ub) ==
    IF Failed(A) \/ i > Len(props) THEN R(A, obj)
    ELSE LET g == GetName(A, ref, props[i].name)
         IN LoadPropsNext(Load(g.A, g.r, props[i].ty, obj.f[props[i].name], ub),
                          ref, props, obj, i, ub)

\* access::serializer::initialize(obj), reached when every member loaded
initialize(l, cls) ==
    IF Failed(l.A) THEN l ELSE R(Log(l.A, Ev("initialize", cls)), l.r)

\* a loader that runs the hook before the members are loaded
load_object_initialize_first(A, ref, cls, obj, ub) ==
    LoadProps(Log(PopClassName(A, ref).A, Ev("initialize", cls)),
              ref, Properties(cls), obj, 1, ub)

\* a loader that takes the sentinel for the name of a class
load_object_any_name(A, ref, cls, obj, ub) ==
    initialize(LoadProps(PopClassName(A, ref).A, ref, Properties(cls), obj, 1, ub), cls)

load_object(A, ref, cls, obj, ub) ==
    LET cn == PopClassName(A, ref)
        A1 == SERIALIZATION_CHECK(cn.A, cn.r # "", "MissingField")
    IN IF Failed(cn.A) \/ Failed(A1) THEN R(A1, obj)
       ELSE IF cn.r = EMPTY_NAME THEN R(A1, obj)
       ELSE initialize(LoadProps(A1, ref, Properties(cls), obj, 1, ub), cls)

\* object.reset(loaded_object.release()), not reached when the load threw
reset(l, y) == IF Failed(l.A) THEN R(l.A, y) ELSE R(l.A, VPtr(l.r))

\* make_ptr<C>(), load into it, reset the handle
LoadNew(A, ref, cls, y, ub) ==
    reset(Load(A, ref, TObj(cls), Default(TObj(cls)), ub), y)

load_unique(A, ref, T, y, ub) == LoadNew(A, ref, T.cls, y, ub)

\* registry()->run(class_name, archive, &object, true)
\*   -> register_serializer_impl<Archiver, Registered>(archive, obj, true)
register_serializer_impl(A, ref, cls, y, ub) == LoadNew(A, ref, cls, y, ub)

\* a shared-handle loader that leaves the handle alone on the empty sentinel
load_shared_keeping_target(A, ref, T, y, ub) ==
    LET cn == PopClassName(A, ref)
    IN IF Failed(cn.A) \/ cn.r = EMPTY_NAME THEN R(cn.A, y)
       ELSE LoadNew(PushClassName(cn.A, ref, cn.r), ref, T.cls, y, ub)

\* serializer_impl<Archiver, SharedPointer T>::load: the sentinel test comes
\* before registry()->Has(class_name)
load_shared(A, ref, T, y, ub) ==
    LET cn == PopClassName(A, ref)
        A1 == Log(cn.A, Ev("registry_has", cn.r))
    IN IF Failed(cn.A) THEN R(cn.A, y)
       ELSE IF cn.r = EMPTY_NAME THEN R(cn.A, VNull)
       ELSE IF cn.r \in Registry(A.b)
            THEN register_serializer_impl(A1, ref, cn.r, y, ub)
       ELSE IF Reflectable(T.cls)
            THEN LoadNew(PushClassName(A1, ref, cn.r), ref, T.cls, y, ub)
       ELSE R(SERIALIZATION_THROW(A1, "RegistryNotFound"), y)

\* serializer_impl<Archiver, OptionalLike T>::load.  optional = loaded_value
\* and optional = nullopt are not reached when a load before them threw.
LoadOptionalValue(l, y) == R(l.A, IF Failed(l.A) THEN y ELSE VSome(l.r))

LoadOptionalFlag(lf, ref, T, y, size, ub) ==
    IF Failed(lf.A) THEN R(lf.A, y)
    ELSE IF ~lf.r.b THEN R(lf.A, VNone)
    ELSE LET A1 == SERIALIZATION_CHECK(lf.A, size >= 2, "SizeMismatch")
             g1 == GetIdx(A1, ref, 1)
         IN IF Failed(A1) THEN R(A1, y)
            ELSE LoadOptionalValue(Load(g1.A, g1.r, T.elem, Default(T.elem), ub), y)

load_optional(A, ref, T, y, ub) ==
    LET sz == Size(A, ref)
        A1 == SERIALIZATION_CHECK(sz.A, sz.r >= 1, "SizeMismatch")
        g0 == GetIdx(A1, ref, 0)
    IN IF Failed(sz.A) \/ Failed(A1) THEN R(A1, y)
       ELSE LoadOptionalFlag(Load(g0.A, g0.r, TBool, VBool(FALSE), ub),
                             ref, T, y, sz.r, ub)

\* the fold over the positions: load(get(archive, Is), std::get<Is>(tuple))
LoadTupleNext(l, ref, T, y, i, ub) ==
    load_tuple_impl(l.A, ref, T, VTuple([y.tup EXCEPT ![i + 1] = l.r]), i + 1, ub)

load_tuple_impl(A, ref, T, y, i, ub) ==
    IF Failed(A) \/ i >= Len(T.elems) THEN R(A, y)
    ELSE LET g == GetIdx(A, ref, i)
         IN LoadTupleNext(Load(Log(g.A, Ev("tuple_elem", "")), g.r, T.elems[i + 1],
                               y.tup[i + 1], ub),
                          ref, T, y, i, ub)

\* serializer_impl<Archiver, TupleLike T>::load
load_tuple(A, ref, T, y, ub) ==
    LET sz == Size(A, ref)
        A1 == SERIALIZATION_CHECK(sz.A, sz.r = Len(T.elems), "SizeMismatch")
    IN IF Failed(sz.A) \/ Failed(A1) THEN R(A1, y)
       ELSE load_tuple_impl(A1, ref, T, y, 0, ub)

\* serializer_impl<Archiver, std::pair<First, Second>>::load: no size is read
load_pair(A, ref, T, y, ub) == load_tuple_impl(A, ref, T, y, 0, ub)

Returned(l) == R(Leave(l.A), l.r)

\* serialization::load -> serializer_impl<Archiver, T>::load
Load(A, ref, T, y, ub) ==
    IF Failed(A) THEN R(A, y)
    ELSE Returned(
      LET A0 == Enter(A)
      IN CASE BaseSerializable(T) -> Pop(A0, ref, T, y)
           [] T.k = "seq" -> load_container(A0, ref, T, y, ub)
           [] T.k = "map" -> load_associative_container(A0, ref, T, y, ub)
           [] T.k = "array" -> load_array(A0, ref, T, y, ub)
           [] T.k = "variant" -> load_variant(A0, ref, T, y, ub)
           [] T.k = "unique" -> load_unique(A0, ref, T, y, ub)
           [] T.k = "shared" -> load_shared(A0, ref, T, y, ub)
           [] T.k = "opt" -> load_optional(A0, ref, T, y, ub)
           [] T.k = "pair" -> load_pair(A0, ref, T, y, ub)
           [] T.k = "tuple" -> load_tuple(A0, ref, T, y, ub)
           [] T.k = "obj" -> load_object(A0, ref, T.cls, y, ub))

(***************************************************************************)
(* Documents on file.                                                      *)
(***************************************************************************)
\* access::write_xml: doc.save_file(path, "  ") writes the tree as text, an
\* element's attributes (repeated names included) and children in order; a
\* text node with no characters leaves nothing in the file
write_xml(A) ==
    Log([A EXCEPT !.nodes =
            [h \in 1..Len(A.nodes) |->
                [A.nodes[h] EXCEPT !.kids =
                    SelectSeq(@, LAMBDA c : A.nodes[c].kind = "element"
                                            \/ AsString(A.nodes[c].val) # "")]]],
        Ev("write_xml", ""))

\* access::read_xml: doc.load_file(path) parses the text into a new tree; the
\* parse leaves no thread-local handle pointing into it
read_xml(A) == Log([A EXCEPT !.cached = 0], Ev("read_xml", ""))

(***************************************************************************)
(* The values the calls are exercised on.                                  *)
(***************************************************************************)
Backings == {"json", "xml", "bin"}

Variant3 == TVariant(<< TInt, TStr, TMono >>)
Variant2 == TVariant(<< TInt, TStr >>)
VariantSeq == TVariant(<< TInt, TSeq(TInt) >>)
VariantObj == TVariant(<< TInt, TObj(DerivedCls) >>)
VariantObjFirst == TVariant(<< TObj(DerivedCls), TInt >>)

\* the types exercised
Types ==
    {TSeq(TInt), TSeq(TSeq(TInt)), TMap(TInt, TInt), TMap(TInt, TSeq(TInt)),
     TArray(TInt, 2), TArray(TInt, 3), Variant3, Variant2, VariantSeq,
     TUnique(BaseCls), TShared(BaseCls), TShared(DerivedCls),
     TObj(BaseCls), TObj(DerivedCls), TObj(HeaderCls),
     TOpt(TInt), TOpt(TStr), TOpt(TSeq(TInt)), TSeq(TOpt(TInt)),
     TShared(IntCls),
     TObj(BusinessCentersCls), TObj(DateAdjustmentsCls),
     TPair(TInt, TStr), TTuple(<< TInt, TStr >>), TTuple(<< TInt, TStr, TInt >>),
     TEnum(32), TEnum(64), VariantObj}

\* the values of each type that are saved.  Ramps are the sequences
\* <<1, 2, ..., 1, 2, ...>> of each length up to MaxLen; a std::map iterates
\* in key order.
Values(T) ==
    LET IntVals == {VInt(i) : i \in 1..MaxInt}
        StrVals == {VStr("a"), VStr("b")}
        Ramps == {VSeq([j \in 1..n |-> VInt(((j - 1) % MaxInt) + 1)]) : n \in 0..MaxLen}
        SeqsOver(S, n) == UNION {[1..m -> S] : m \in 0..n}
        KeySeq(S) ==
            [j \in 1..Cardinality(S) |->
                CHOOSE k \in S : Cardinality({m \in S : m < k}) = j - 1]
        MapsTo(Vals) ==
            UNION {{VMap([j \in 1..Cardinality(S) |->
                            [key |-> VInt(KeySeq(S)[j]), val |-> f[KeySeq(S)[j]]]])
                    : f \in [S -> Vals]} : S \in SUBSET (1..MaxInt)}
        Variant3Vals == {VVar(0, v) : v \in IntVals} \cup {VVar(1, v) : v \in StrVals}
                        \cup {VVar(2, VMono)}
        BaseObjs == {VObj(BaseCls, [d_ |-> d]) : d \in IntVals}
        DerivedObjs ==
            {VObj(DerivedCls, [d_ |-> d, n_ |-> n]) : d \in IntVals, n \in StrVals}
        MessageIds ==
            {VObj(MessageIdCls, [message_id_ |-> m, scheme_ |-> c])
                : m \in StrVals, c \in StrVals}
        Opts(Vals) == {VNone} \cup {VSome(v) : v \in Vals}
        Centers ==
            {VObj(BusinessCentersCls, [centers_ |-> VSeq(q)])
                : q \in SeqsOver({VObj(BusinessCenterCls, [center_ |-> c])
                                     : c \in StrVals}, MaxOuter)}
        Words == {-1} \cup (0..MaxInt)
    IN CASE T = TSeq(TInt) -> {VSeq(q) : q \in SeqsOver(IntVals, MaxLen)}
         [] T = TEnum(32) -> {VEnum(SignWord(lo), lo) : lo \in Words}
         [] T = TEnum(64) -> {VEnum(hi, lo) : hi \in {-1, 0, 1}, lo \in Words}
         [] T = TOpt(TInt) -> Opts(IntVals)
         [] T = TOpt(TStr) -> Opts(StrVals)
         [] T = TOpt(TSeq(TInt)) -> Opts(Ramps)
         [] T = TSeq(TOpt(TInt)) -> {VSeq(q) : q \in SeqsOver(Opts(IntVals), MaxOuter)}
         [] T = TSeq(TSeq(TInt)) -> {VSeq(q) : q \in SeqsOver(Ramps, MaxOuter)}
         [] T = TMap(TInt, TInt) -> MapsTo(IntVals)
         [] T = TMap(TInt, TSeq(TInt)) -> MapsTo(Ramps)
         [] T.k = "array" -> {VArr(q) : q \in [1..T.n -> IntVals]}
         [] T = Variant3 -> Variant3Vals
         [] T = Variant2 -> {v \in Variant3Vals : v.index < 2}
         [] T = VariantObj ->
               {VVar(0, v) : v \in IntVals} \cup {VVar(1, v) : v \in DerivedObjs}
         [] T = VariantObjFirst ->
               {VVar(1, v) : v \in IntVals} \cup {VVar(0, v) : v \in DerivedObjs}
         [] T = VariantSeq ->
               {VVar(0, v) : v \in IntVals} \cup {VVar(1, v) : v \in Ramps}
         [] T = TUnique(BaseCls) ->
               {VNull} \cup {VPtr(o) : o \in BaseObjs \cup DerivedObjs}
         [] T = TShared(BaseCls) ->
               {VNull} \cup {VPtr(o) : o \in BaseObjs \cup DerivedObjs}
         [] T = TShared(DerivedCls) -> {VNull} \cup {VPtr(o) : o \in DerivedObjs}
         [] T = TObj(BusinessCentersCls) -> Centers
         [] T = TObj(DateAdjustmentsCls) ->
               {VObj(DateAdjustmentsCls,
                     [business_day_convention_ |-> VStr("a"), business_centers_ |-> c])
                   : c \in Centers}
         [] T = TShared(IntCls) -> {VNull} \cup {VPtr(v) : v \in IntVals}
         [] T.k \in {"pair", "tuple"} ->
               {VTuple(q) : q \in {q \in [1..Len(T.elems) -> IntVals \cup StrVals] :
                                      \A j \in 1..Len(T.elems) :
                                         q[j] \in (IF T.elems[j] = TInt THEN IntVals
                                                   ELSE StrVals)}}
         [] T = TObj(BaseCls) -> BaseObjs
         [] T = TObj(DerivedCls) -> DerivedObjs
         [] T = TObj(HeaderCls) ->
               {VObj(HeaderCls, [message_id_ |-> m, sent_by_ |-> b])
                   : m \in MessageIds, b \in StrVals}

\* what the load target holds before the call: a value-initialised object or
\* one left over from earlier use
Stale(T) ==
    CASE T.k = "seq" -> {v \in Values(T) : Len(v.seq) = 1}
      [] T.k = "map" -> {v \in Values(T) : Len(v.map) = MaxInt}
      [] T.k = "variant" -> Values(T)
      [] T.k = "opt" -> {v \in Values(T) : "some" \in DOMAIN v}
      [] T.k = "shared" -> {v \in Values(T) : ~IsNull(v)}
      [] T \in {TObj(BaseCls), TObj(DerivedCls)} -> Values(T)
      [] OTHER -> {}
Prior(T) == {Default(T)} \cup Stale(T)

\* the static type the archive is loaded as: the type it was saved as, or
\* one of the types a caller can mistake it for
LoadedAs(T) ==
    {T} \cup (CASE T = TArray(TInt, 3) -> {TArray(TInt, 2)}
                [] T = TArray(TInt, 2) -> {TArray(TInt, 3)}
                [] T = TSeq(TInt) -> {TMap(TInt, TInt)}
                [] T = Variant3 -> {Variant2}
                [] T = VariantObj -> {VariantObjFirst}
                [] T = TTuple(<< TInt, TStr, TInt >>) -> {TTuple(<< TInt, TStr >>)}
                [] OTHER -> {})

(***************************************************************************)
(* The program: a caller saves x into a fresh archive, then loads the      *)
(* archive into y.                                                          *)
(***************************************************************************)
VARIABLES pc, tyS, tyL, x, y, y0, ar
\* what the first save left in its archive, and what a second save, of the
\* loaded value into a second fresh archive, left in that one
VARIABLES first, second
\* the threads of the concurrent callers: where each thread is in its save
\* and load, each thread's own document, and the cached_node objects
VARIABLES thr, docs, cached_node
caller == << pc, tyS, tyL, x, y, y0, ar, first, second >>
threads == << thr, docs, cached_node >>
vars == << pc, tyS, tyL, x, y, y0, ar, first, second, thr, docs, cached_node >>

\* the tree or the byte sequence an archive holds
Content(A) == [json |-> A.json, nodes |-> A.nodes, stream |-> A.stream]

Init ==
    /\ pc = "start"
    /\ tyS \in Types
    /\ tyL \in LoadedAs(tyS)
    /\ x \in Values(tyS)
    /\ y0 \in Prior(tyL)
    /\ y = y0
    /\ ar \in {Fresh(b) : b \in Backings}
    \* the textual form of an enumeration goes through enum_to_string and
    \* string_to_enum, which these sources do not hold
    /\ tyS.k = "enum" => ar.b = "bin"
    /\ first = Content(ar) /\ second = Content(ar)
    /\ thr = << >> /\ docs = << >> /\ cached_node = << >>

\* serialization::save(archive, x)
DoSave(ub) ==
    /\ pc = "start"
    /\ ar' = Save(ar, TopRef(ar.b), tyS, x, ub)
    /\ first' = Content(ar')
    /\ pc' = "saved"
    /\ UNCHANGED << tyS, tyL, x, y, y0, second, threads >>

\* access::write_xml(path, doc), then access::read_xml(path, doc) into a
\* fresh document whose root the caller loads from
WriteReadXml ==
    /\ pc = "saved"
    /\ ar.b = "xml"
    /\ ar.err = ""
    /\ ar' = read_xml(write_xml(ar))
    /\ pc' = "filed"
    /\ UNCHANGED << tyS, tyL, x, y, y0, first, second, threads >>

\* serialization::save(archive, x2) into the archive that already holds x;
\* taken for the sequences of integers, x2 a shorter one than x
SaveAgain(ub) ==
    /\ pc = "saved"
    /\ tyS = TSeq(TInt)
    /\ ar.err = ""
    /\ \E x2 \in {v \in Values(tyS) : Len(v.seq) < Len(x.seq)} :
          /\ x' = x2
          /\ ar' = Save(Log(ar, Ev("save_again", "")), TopRef(ar.b), tyS, x2, ub)
    /\ pc' = "saved_again"
    /\ UNCHANGED << tyS, tyL, y, y0, first, second, threads >>

\* the type name on the top node of a document that another producer wrote
\* or edited: absent, not a string, or the sentinel
ForeignTypeName(A, how) ==
    LET name == IF how = "non_string" THEN JNum(1) ELSE JStr(EMPTY_NAME)
    IN CASE A.b = "json" ->
              [A EXCEPT !.json =
                  JObj(IF how = "missing"
                       THEN SelectSeq(A.json.obj, LAMBDA e : e.k # CLASS_NAME)
                       ELSE [j \in 1..Len(A.json.obj) |->
                               IF A.json.obj[j].k = CLASS_NAME
                               THEN [k |-> CLASS_NAME, n |-> name]
                               ELSE A.json.obj[j]])]
         [] A.b = "xml" ->
              [A EXCEPT !.nodes[1].attrs =
                  IF how = "missing"
                  THEN SelectSeq(@, LAMBDA a : a.n # XML_CLASS_ATTR)
                  ELSE [j \in 1..Len(@) |->
                          IF @[j].n = XML_CLASS_ATTR
                          THEN [n |-> XML_CLASS_ATTR, v |-> TxtChars(EMPTY_NAME)]
                          ELSE @[j]]]
         [] A.b = "bin" -> [A EXCEPT !.stream[1] = [str |-> EMPTY_NAME]]

\* the caller is handed the document of an aggregate whose type name is not
\* the one save wrote.  An XML attribute is always text, and the byte stream
\* always holds a string in the name's slot.
ForeignDocument(how) ==
    /\ pc = "saved"
    /\ tyS.k = "obj"
    /\ ar.err = ""
    /\ how = "non_string" => ar.b = "json"
    /\ how = "missing" => ar.b # "bin"
    /\ ar' = Log(ForeignTypeName(ar, how), Ev("type_name", how))
    /\ pc' = "foreign"
    /\ UNCHANGED << tyS, tyL, x, y, y0, first, second, threads >>

\* serialization::load(archive, y)
DoLoad(ub) ==
    /\ pc \in {"saved", "filed", "foreign", "saved_again"}
    /\ ar.err = ""
    /\ LET l == Load(ar, TopRef(ar.b), tyL, y, ub)
       IN /\ ar' = l.A
          /\ y' = l.r
    /\ pc' = "loaded"
    /\ UNCHANGED << tyS, tyL, x, y0, first, second, threads >>

\* serialization::save(archive2, y): the loaded value into a second fresh
\* archive of the same backing
DoResave(ub) ==
    /\ pc = "loaded"
    /\ ar.err = ""
    /\ second' = Content(Save(Fresh(ar.b), TopRef(ar.b), tyL, y, ub))
    /\ pc' = "resaved"
    /\ UNCHANGED << tyS, tyL, x, y, y0, ar, first, threads >>

Next ==
    \/ \E ub \in UBOutcomes : DoSave(ub)
    \/ WriteReadXml
    \/ \E ub \in UBOutcomes : SaveAgain(ub)
    \/ \E how \in {"missing", "non_string", "sentinel"} : ForeignDocument(how)
    \/ \E ub \in UBOutcomes : DoLoad(ub)
    \/ \E ub \in UBOutcomes : DoResave(ub)

Spec == Init /\ [][Next]_vars

(***************************************************************************)
(* Concurrent callers.  Each thread saves a std::vector<int> into its own  *)
(* pugi::xml_document and loads it back; a step is one archiver_wrapper    *)
(* call, and the threads' steps interleave freely.  A handle names the     *)
(* document it points into: [doc |-> thread, node |-> id].                 *)
(***************************************************************************)
Threads == {1, 2}

\* a cached_node object that all threads share
SharedCache(t) == 1

\* thread_local static inline xml_node_wrapper cached_node: one per thread
CacheOf(t) == t

\* the archive a call of thread t on the handle h works on
ArchiveAt(h) == [Fresh("xml") EXCEPT !.nodes = docs[h.doc], !.cached = h.node]
Own(t) == ArchiveAt([doc |-> t, node |-> 0])

\* thread t moves to `new`; a thread that holds the reference a get returned
\* has now seen another thread run before it used the reference
Step(t, new) ==
    [u \in Threads |->
        IF u = t THEN new
        ELSE IF thr[u].phase \in {"save_push", "load_pop"}
             THEN [thr[u] EXCEPT !.preempted = TRUE]
        ELSE thr[u]]

ConcInit ==
    /\ pc = "threads" /\ tyS = TSeq(TInt) /\ tyL = TSeq(TInt)
    /\ x = VSeq(<< >>) /\ y = x /\ y0 = x /\ ar = Fresh("xml")
    /\ first = Content(ar) /\ second = Content(ar)
    /\ thr \in [Threads -> {[phase |-> "resize", i |-> 0, size |-> 0,
                              x |-> q, y |-> << >>, preempted |-> FALSE]
                              : q \in UNION {[1..n -> {VInt(v) : v \in 1..MaxInt}]
                                               : n \in 0..MaxThreadLen}}]
    /\ docs = [t \in Threads |-> Fresh("xml").nodes]
    /\ cached_node = [t \in Threads |-> [doc |-> 0, node |-> 0]]

\* save_container: resize(archive, size)
SaveResize(t) ==
    /\ thr[t].phase = "resize"
    /\ docs' = [docs EXCEPT ![t] = XmlResize(Own(t), TopRef("xml"), Len(thr[t].x)).nodes]
    /\ thr' = Step(t, [thr[t] EXCEPT !.phase = IF thr[t].x = << >> THEN "size"
                                               ELSE "save_get"])
    /\ UNCHANGED << cached_node, caller >>

\* get(archive, i): the child is left in this thread's cached_node
ThreadGet(t, from, to) ==
    /\ thr[t].phase = from
    /\ LET g == XmlGetIdx(Own(t), TopRef("xml"), thr[t].i)
       IN /\ docs' = [docs EXCEPT ![t] = g.A.nodes]
          /\ cached_node' = [cached_node EXCEPT
                                ![CacheOf(t)] = [doc |-> t, node |-> g.A.cached]]
    /\ thr' = Step(t, [thr[t] EXCEPT !.phase = to,
                                     !.y = IF to = "load_pop" THEN Append(@, VInt(0))
                                           ELSE @])
    /\ UNCHANGED caller

\* save_container: save(get(archive, i), container[i])
SaveGet(t) == ThreadGet(t, "save_get", "save_push")

\* serialization::save -> push(archive, obj) through the reference get returned
SavePush(t) ==
    /\ thr[t].phase = "save_push"
    /\ LET h == cached_node[CacheOf(t)]
       IN docs' = [docs EXCEPT ![h.doc] =
                     XmlPush(ArchiveAt(h), CachedRef, TInt, thr[t].x[thr[t].i + 1]).nodes]
    /\ thr' = Step(t, [thr[t] EXCEPT !.i = IF @ + 1 < Len(thr[t].x) THEN @ + 1 ELSE 0,
                                     !.phase = IF thr[t].i + 1 < Len(thr[t].x)
                                               THEN "save_get" ELSE "size"])
    /\ UNCHANGED << cached_node, caller >>

\* load_container: size(archive), container.clear()
LoadSize(t) ==
    /\ thr[t].phase = "size"
    /\ thr' = Step(t, [thr[t] EXCEPT !.size = XmlSize(Own(t), TopRef("xml")).r,
                                     !.y = << >>,
                                     !.phase = IF XmlSize(Own(t), TopRef("xml")).r = 0
                                               THEN "done" ELSE "load_get"])
    /\ UNCHANGED << docs, cached_node, caller >>

\* load_container: container.emplace_back(), get(archive, i)
LoadGet(t) == ThreadGet(t, "load_get", "load_pop")

\* serialization::load -> pop(archive, element) through the reference
LoadPop(t) ==
    /\ thr[t].phase = "load_pop"
    /\ thr' = Step(t, [thr[t] EXCEPT
                         !.y[thr[t].i + 1] =
                             XmlPop(ArchiveAt(cached_node[CacheOf(t)]), CachedRef, TInt, @).r,
                         !.i = @ + 1,
                         !.phase = IF thr[t].i + 1 < thr[t].size THEN "load_get"
                                   ELSE "done"])
    /\ UNCHANGED << docs, cached_node, caller >>

ConcNext ==
    \E t \in Threads :
        \/ SaveResize(t)
        \/ SaveGet(t)
        \/ SavePush(t)
        \/ LoadSize(t)
        \/ LoadGet(t)
        \/ LoadPop(t)

ConcSpec == ConcInit /\ [][ConcNext]_vars

(***************************************************************************)
(* Properties.                                                             *)
(***************************************************************************)
Happened(e) == \E j \in 1..Len(ar.ev) : ar.ev[j].e = e
\* the document loaded is one another producer wrote, with this type name
Foreign(how) == \E j \in 1..Len(ar.ev) : ar.ev[j] = Ev("type_name", how)
\* the archive loaded is the one a single save into a fresh archive left
OneSave == ~Happened("type_name") /\ ~Happened("save_again")
RoundTrip == pc = "loaded" /\ tyL = tyS /\ OneSave

\* C1: in every backing, saving a sequence container (the empty one and
\* sequences of sequences included) into a fresh archive and loading the
\* archive leaves the target equal to the saved sequence, element for element
\* in the same order, whatever the target held before.
C1_SequenceRoundTrip ==
    (RoundTrip /\ tyS.k = "seq") => (ar.err = "" /\ y = x)

\* C2: saving a shared handle of static element type B whose pointee is a
\* registered derived D, then loading into a shared handle of B, yields a
\* pointee of concrete type D whose fields, B's and D's, equal the original's.
C2_DerivedThroughBaseHandle ==
    (RoundTrip /\ tyS = TShared(BaseCls) /\ ~IsNull(x) /\ x.ptr.cls = DerivedCls)
        => (ar.err = "" /\ ~IsNull(y) /\ y.ptr.cls = DerivedCls /\ y.ptr.f = x.ptr.f)

\* C3: an aggregate with a member that is itself an aggregate, saved into a
\* fresh archive of any backing and loaded into a default-constructed object,
\* comes back with every outer and nested field equal to the original.
C3_NestedAggregateRoundTrip ==
    (RoundTrip /\ tyS = TObj(HeaderCls) /\ y0 = Default(tyL))
        => (ar.err = "" /\ y = x)

\* C4: saving a null unique handle fails with NullPointer: the save is
\* aborted and the handle is never dereferenced.
C4_NullUniqueFails ==
    (pc = "saved" /\ tyS.k = "unique" /\ IsNull(x))
        => (ar.err = "NullPointer" /\ ~Happened("deref_null"))

\* C5: loading a variant from a node whose stored tag is at or past the
\* number of alternatives fails with InvalidIndex: no alternative's loader
\* runs and the loader table is never indexed out of range.
C5_VariantTagChecked ==
    (pc = "loaded" /\ tyS.k = "variant" /\ tyL.k = "variant"
       /\ x.index >= Len(tyL.alts))
        => (ar.err = "InvalidIndex" /\ ~Happened("loader")
            /\ ~Happened("loaders_out_of_range"))

\* C6: loading a fixed-size array of static length N from a node whose
\* declared size is not N fails with SizeMismatch before any element is
\* loaded.
C6_ArraySizeChecked ==
    (pc = "loaded" /\ tyS.k = "array" /\ tyL.k = "array" /\ tyS.n # tyL.n)
        => (ar.err = "SizeMismatch" /\ ~Happened("array_elem"))

\* C7: loading a map from a node whose declared child count is odd fails
\* with SizeMismatch, and no key/value pair is inserted from that node.
C7_OddMapSizeChecked ==
    (pc = "loaded" /\ tyS.k = "seq" /\ tyL.k = "map" /\ Len(x.seq) % 2 = 1)
        => (ar.err = "SizeMismatch" /\ ~Happened("emplace") /\ y.map = << >>)

\* C8: every save and load keeps a depth counter that goes up on entering
\* each nested save/load and down on leaving it, and a traversal nesting
\* deeper than max_depth fails with RecursionLimit.
C8_DepthCounted ==
    pc # "start"
        => (/\ ar.depth = ar.calls
            /\ ar.peakDepth = ar.peakCalls
            /\ (ar.peakCalls > max_depth => ar.err = "RecursionLimit"))

\* what a primitive is stored as in each backing
JsonOf(v) ==
    IF "i" \in DOMAIN v THEN JNum(v.i)
    ELSE IF "s" \in DOMAIN v THEN JStr(v.s) ELSE JNull
TextOf(v) ==
    IF "i" \in DOMAIN v THEN TxtNum(v.i)
    ELSE IF "s" \in DOMAIN v THEN TxtChars(v.s) ELSE NoText
SlotOf(v) ==
    IF "i" \in DOMAIN v THEN [int |-> v.i]
    ELSE IF "s" \in DOMAIN v THEN [str |-> v.s] ELSE [u8 |-> 0]

\* key, value, key, value, ... in the container's iteration order
Interleaved(q, F(_)) ==
    [j \in 1..(2 * Len(q)) |->
        IF j % 2 = 1 THEN F(q[(j + 1) \div 2].key) ELSE F(q[j \div 2].val)]

MapStoredInterleaved ==
    CASE ar.b = "json" ->
           ar.json = IF x.map = << >> THEN JNull
                     ELSE JArr(Interleaved(x.map, JsonOf))
      [] ar.b = "xml" ->
           /\ Len(ar.nodes[1].kids) = 2 * Len(x.map)
           /\ \A j \in 1..(2 * Len(x.map)) :
                 XText(ar, ar.nodes[1].kids[j]) = Interleaved(x.map, TextOf)[j]
      [] ar.b = "bin" ->
           ar.stream = << [u32 |-> 2 * Len(x.map)] >> \o Interleaved(x.map, SlotOf)

\* C9: saving a map with n entries declares 2n children and writes the
\* i-th entry's key at position 2i and its mapped value at position 2i+1
\* (the map {1->1, 2->2} is the JSON array [1,1,2,2]); loading that node
\* reconstructs exactly the same n entries.
C9_MapLayoutAndRoundTrip ==
    /\ (pc = "saved" /\ tyS.k = "map")
          => Size(ar, TopRef(ar.b)).r = 2 * Len(x.map)
    /\ (pc = "saved" /\ tyS = TMap(TInt, TInt)) => MapStoredInterleaved
    /\ (RoundTrip /\ tyS.k = "map") => (ar.err = "" /\ y = x)

VariantStoredUnderNames ==
    CASE ar.b = "json" ->
           ar.json = JObj(<< [k |-> "Index", n |-> JNum(x.index)],
                             [k |-> "Value", n |-> JsonOf(x.value)] >>)
      [] ar.b = "xml" ->
           /\ XAttribute(ar, 1, "Index") = TxtNum(x.index)
           /\ XChild(ar, 1, "Value") # 0
           /\ XText(ar, XChild(ar, 1, "Value")) = TextOf(x.value)
      [] ar.b = "bin" ->
           ar.stream = << [u32 |-> x.index], SlotOf(x.value) >>

\* C10: saving a variant stores the index of the active alternative under
\* "Index" and the active value under "Value"; loading that node leaves the
\* target holding the same alternative with an equal value, whichever
\* alternative it held before, the empty placeholder included.
C10_VariantLayoutAndRoundTrip ==
    /\ (pc = "saved" /\ tyS.k = "variant"
          /\ BaseSerializable(tyS.alts[x.index + 1])) => VariantStoredUnderNames
    /\ (RoundTrip /\ tyS.k = "variant") => (ar.err = "" /\ y = x)

\* what a saved optional of a primitive looks like in each backing
OptionalStoredAtPositions ==
    LET has_value == "some" \in DOMAIN x
    IN CASE ar.b = "json" ->
              ar.json = JArr(<< JBool(has_value) >>
                             \o (IF has_value THEN << JsonOf(x.some) >> ELSE << >>))
         [] ar.b = "xml" ->
              /\ Len(ar.nodes[1].kids) = IF has_value THEN 2 ELSE 1
              /\ XText(ar, ar.nodes[1].kids[1]) = TxtChars(BoolText(has_value))
              /\ has_value => XText(ar, ar.nodes[1].kids[2]) = TextOf(x.some)
         [] ar.b = "bin" ->
              ar.stream = << [u32 |-> 2], [bool |-> has_value] >>
                          \o (IF has_value THEN << SlotOf(x.some) >> ELSE << >>)

\* C11: an optional round-trips in every backing: an optional holding v is
\* stored as the flag true at position 0 and v at position 1 and loads as an
\* optional holding v; an empty optional is stored as the flag false alone
\* and loads as an empty optional, also when the target held a value before.
C11_OptionalRoundTrip ==
    /\ (pc = "saved" /\ tyS.k = "opt" /\ BaseSerializable(tyS.elem))
          => OptionalStoredAtPositions
    /\ (RoundTrip /\ tyS.k = "opt") => (ar.err = "" /\ y = x)

\* the archive holds the type name "null object!" and nothing else
OnlySentinelStored ==
    CASE ar.b = "json" -> ar.json = JObj(<< [k |-> CLASS_NAME, n |-> JStr(EMPTY_NAME)] >>)
      [] ar.b = "xml" ->
           /\ Len(ar.nodes) = 1
           /\ ar.nodes[1].attrs = << [n |-> XML_CLASS_ATTR, v |-> TxtChars(EMPTY_NAME)] >>
      [] ar.b = "bin" -> ar.stream = << [str |-> EMPTY_NAME] >>

\* C12: saving a null shared handle raises no failure and stores the
\* sentinel type name "null object!" alone, no payload; loading that node
\* leaves the target shared handle null, whatever it owned before, and the
\* registry is not consulted.
C12_NullSharedHandle ==
    /\ (pc # "start" /\ tyS.k = "shared" /\ IsNull(x))
          => (ar.err = "" /\ ~Happened("deref_null"))
    /\ (pc = "saved" /\ tyS.k = "shared" /\ IsNull(x)) => OnlySentinelStored
    /\ (pc = "loaded" /\ tyS.k = "shared" /\ IsNull(x))
          => (IsNull(y) /\ ~Happened("registry_has") /\ ~Happened("initialize"))

C12_Witness ==
    /\ pc = "loaded" /\ tyS = TShared(BaseCls) /\ IsNull(x)
    /\ ~IsNull(y0) /\ y0.ptr.cls = DerivedCls /\ IsNull(y)

\* the member loads and initialize calls of a load, in the order they ended
LoadTrace == SelectSeq(ar.ev, LAMBDA e : e.e \in {"member", "initialize"})

\* loading entries i.. of cls and then its hook, each aggregate member's own
\* entries and hook before the member counts as loaded
RECURSIVE LoadOrder(_, _)
LoadOrder(cls, i) ==
    IF i > Len(Properties(cls)) THEN << Ev("initialize", cls) >>
    ELSE LET p == Properties(cls)[i]
         IN (IF p.ty.k = "obj" THEN LoadOrder(p.ty.cls, 1) ELSE << >>)
            \o << Ev("member", p.name) >> \o LoadOrder(cls, i + 1)

\* the class whose loader runs for the archive that was saved
LoadedClass ==
    IF tyL.k = "shared" /\ x.ptr.cls \in Registry(ar.b) THEN x.ptr.cls ELSE tyL.cls

\* an aggregate, directly or through a handle that owns one
\* the aggregates whose members are primitives or such aggregates
PlainAggregates == {BaseCls, DerivedCls, MessageIdCls, HeaderCls}

AggregateLoaded ==
    /\ pc = "loaded" /\ tyL.k \in {"obj", "unique", "shared"} /\ ~IsNull(x)
    /\ tyL.cls \in PlainAggregates /\ ~Foreign("sentinel")

\* C13: loading a reflectable aggregate from a node with a type name other
\* than the sentinel runs its initialize hook exactly once, after every
\* descriptor entry of the object has been loaded, a nested aggregate's hook
\* before the enclosing one's; a load that fails runs no hook out of order,
\* and no save runs the hook.
C13_InitializeAfterMembers ==
    /\ AggregateLoaded =>
          /\ Len(LoadTrace) <= Len(LoadOrder(LoadedClass, 1))
          /\ LoadTrace = SubSeq(LoadOrder(LoadedClass, 1), 1, Len(LoadTrace))
          /\ ar.err = "" => LoadTrace = LoadOrder(LoadedClass, 1)
    /\ pc = "saved" => ~Happened("initialize")

C13_Witness ==
    /\ AggregateLoaded /\ tyL = TObj(HeaderCls) /\ ar.err = ""
    /\ LoadTrace = << Ev("member", "message_id_"), Ev("member", "scheme_"),
                      Ev("initialize", MessageIdCls), Ev("member", "message_id_"),
                      Ev("member", "sent_by_"), Ev("initialize", HeaderCls) >>

\* the member names of the events of one kind, in order
NamesOf(q, kind) ==
    LET hits == SelectSeq(q, LAMBDA e : e.e = kind)
    IN [j \in 1..Len(hits) |-> hits[j].c]

\* the names under which the saved object's members sit in the archive, in
\* document order (the byte stream holds no names)
StoredMemberNames ==
    CASE ar.b = "json" -> [j \in 1..(Len(ar.json.obj) - 1) |-> ar.json.obj[j + 1].k]
      [] ar.b = "xml" ->
           [j \in 1..Len(ar.nodes[1].kids) |-> ar.nodes[ar.nodes[1].kids[j]].name]
      [] ar.b = "bin" -> << >>

AggregateSaved ==
    /\ pc # "start" /\ tyS.k \in {"obj", "unique", "shared"} /\ ~IsNull(x)
    /\ tyS.cls \in PlainAggregates

\* C14: a derived type's descriptor is its parent's entries in the parent's
\* order followed by its own in declaration order (d_ then n_ for the derived
\* test class); save visits the entries of the saved type's descriptor in
\* that order, load visits the entries of the loaded type's descriptor in
\* that order, and both address the child by the entry's member name.
C14_DescriptorOrder ==
    /\ AggregateSaved =>
          NamesOf(ar.ev, "save_member") = NamesOf(LoadOrder(tyS.cls, 1), "member")
    /\ (pc = "saved" /\ tyS \in {TObj(DerivedCls), TShared(DerivedCls)} /\ ~IsNull(x))
          => (/\ NamesOf(ar.ev, "save_member") = << "d_", "n_" >>
              /\ ar.b # "bin" => StoredMemberNames = << "d_", "n_" >>)
    /\ (AggregateLoaded /\ ar.err = "") =>
          NamesOf(ar.ev, "member") = NamesOf(LoadOrder(LoadedClass, 1), "member")
    /\ (AggregateLoaded /\ ar.err = "" /\ LoadedClass = tyS.cls) =>
          NamesOf(ar.ev, "member") = NamesOf(ar.ev, "save_member")

C14_Witness ==
    /\ RoundTrip /\ tyS = TObj(DerivedCls) /\ ar.err = "" /\ y = x
    /\ NamesOf(ar.ev, "save_member") = << "d_", "n_" >>
    /\ NamesOf(ar.ev, "member") = << "d_", "n_" >>
    /\ StoredMemberNames = << "d_", "n_" >>

\* C15: loading a shared handle from a node whose type name is not the
\* sentinel and not a key of the registry, the element type having no
\* descriptor, fails with RegistryNotFound.
C15_RegistryNotFound ==
    (pc = "loaded" /\ tyL.k = "shared" /\ ~Reflectable(tyL.cls) /\ ~IsNull(x))
        => ar.err = "RegistryNotFound"

\* the count n a resize(archive, n) leaves in the archive (resize does
\* nothing to a JSON node, whose children are counted instead)
DeclaredCount ==
    CASE ar.b = "json" -> Len(ar.json.arr)
      [] ar.b = "xml" -> AsNumber(XAttribute(ar, 1, SIZE_NAME))
      [] ar.b = "bin" -> IF "u32" \in DOMAIN ar.stream[1] THEN ar.stream[1].u32 ELSE 0

\* C16: saving a tuple-like value of arity K (a pair is K = 2) declares K
\* positional children through resize and then writes the elements at
\* positions 0..K-1; loading reads the declared count and fails unless it
\* is K, before any element is loaded.
C16_TupleArityDeclaredAndChecked ==
    /\ (pc = "saved" /\ tyS.k \in {"pair", "tuple"}) => DeclaredCount = Len(tyS.elems)
    /\ (pc = "loaded" /\ tyS.k = "tuple" /\ Len(tyL.elems) # Len(tyS.elems))
          => (ar.err = "SizeMismatch" /\ ~Happened("tuple_elem"))

\* the sequence of business centers inside a saved or loaded aggregate
CentersOf(v) ==
    IF v.cls = DateAdjustmentsCls THEN v.f.business_centers_.f.centers_.seq
    ELSE v.f.centers_.seq

\* C17: in the XML backing an aggregate holding a sequence of reflectable
\* aggregates, on its own or nested in a further aggregate, survives save to
\* a document, write to a file, read back and load: the loaded sequence has
\* as many elements as the original and each element's string member equals
\* the original element's.
C17_XmlNestedSequenceThroughFile ==
    (/\ pc = "loaded" /\ Happened("read_xml")
     /\ tyS \in {TObj(BusinessCentersCls), TObj(DateAdjustmentsCls)})
        => (/\ ar.err = ""
            /\ Len(CentersOf(y)) = Len(CentersOf(x))
            /\ \A j \in 1..Len(CentersOf(x)) :
                  CentersOf(y)[j].f.center_ = CentersOf(x)[j].f.center_)

\* C18: a unique handle of static element type B owning a derived D, saved
\* and loaded into a unique handle of B, yields a pointee of concrete type D.
C18_DerivedThroughUniqueHandle ==
    (RoundTrip /\ tyS = TUnique(BaseCls) /\ ~IsNull(x) /\ x.ptr.cls = DerivedCls)
        => (ar.err = "" /\ ~IsNull(y) /\ y.ptr.cls = DerivedCls)

\* what thread t's save leaves in its document, and what its load returns,
\* when the thread runs alone
SoloSaved(t) == Save(Fresh("xml"), TopRef("xml"), TSeq(TInt), VSeq(thr[t].x), "benign")
SoloLoaded(t) == Load(SoloSaved(t), TopRef("xml"), TSeq(TInt), VSeq(<< >>), "benign").r

C20_SaveLoadSaveIdempotent ==
    (pc = "resaved" /\ tyL = tyS /\ ~Happened("read_xml") /\ OneSave)
        => second = first

\* C21: in the byte-stream backing an enumeration value, also one outside
\* the range of a 32-bit signed int when the underlying type is wider, is
\* read back as the value that was saved.
C21_EnumLosslessInByteStream ==
    (pc = "loaded" /\ ar.b = "bin" /\ tyS.k = "enum" /\ tyL = tyS) => y = x

\* the aggregate that was saved is loaded from a document on whose top node
\* the type name is missing or not a string
NoTypeNameLoaded ==
    /\ pc = "loaded" /\ tyL.k = "obj" /\ tyL.cls \in PlainAggregates
    /\ (Foreign("missing") \/ Foreign("non_string"))

C23_MissingTypeNameFails ==
    NoTypeNameLoaded => (ar.err = "MissingField" /\ ~Happened("member") /\ y = y0)

\* C24: in the byte-stream backing a load with the static type of the save
\* makes the reads that match the save's writes, slot for slot: it runs into
\* no slot of another kind and not past the end, and leaves the read cursor
\* exactly at the end of what the save wrote, where a value saved next has
\* its first slot.
C24_ReadsMirrorWrites ==
    (RoundTrip /\ ar.b = "bin")
        => (ar.err = "" /\ ar.rd = Len(first.stream) + 1)

\* the child elements of an XML node, in document order
ElementsOf(h) == SelectSeq(ar.nodes[h].kids, LAMBDA c : ar.nodes[c].kind = "element")

\* the i-th child element of node h holds the i-th integer of q
IntsUnder(h, q) ==
    /\ Len(ElementsOf(h)) = Len(q)
    /\ \A j \in 1..Len(q) : XText(ar, ElementsOf(h)[j]) = TxtNum(q[j].i)

\* the i-th child element of node h holds the i-th business center of q
CentersUnder(h, q) ==
    /\ Len(ElementsOf(h)) = Len(q)
    /\ \A j \in 1..Len(q) :
          /\ XChild(ar, ElementsOf(h)[j], "center_") # 0
          /\ XText(ar, XChild(ar, ElementsOf(h)[j], "center_"))
                = TxtChars(q[j].f.center_.s)

\* C25: in the XML backing the i-th element of a saved sequence sits in the
\* i-th child element of the container's own node, also when the container
\* is an element of another container or a member of an aggregate.
C25_XmlElementsUnderOwnNode ==
    (pc = "saved" /\ ar.b = "xml") =>
        /\ tyS = TSeq(TInt) => IntsUnder(1, x.seq)
        /\ tyS = TSeq(TSeq(TInt)) =>
              /\ Len(ElementsOf(1)) = Len(x.seq)
              /\ \A i \in 1..Len(x.seq) : IntsUnder(ElementsOf(1)[i], x.seq[i].seq)
        /\ tyS = TObj(BusinessCentersCls) =>
              /\ XChild(ar, 1, "centers_") # 0
              /\ CentersUnder(XChild(ar, 1, "centers_"), x.f.centers_.seq)

\* C26: loading an aggregate from a node whose type name is the sentinel
\* loads no member, leaves every member of the target as it was before the
\* call and returns, without a failure, without invoking initialize.
C26_SentinelLeavesObject ==
    (pc = "loaded" /\ tyL.k = "obj" /\ Foreign("sentinel"))
        => (/\ ar.err = ""
            /\ ~Happened("member") /\ ~Happened("initialize")
            /\ y = y0)

C26_Witness ==
    /\ pc = "loaded" /\ tyL = TObj(DerivedCls) /\ Foreign("sentinel")
    /\ ar.b = "json" /\ y0 # Default(tyL) /\ y0 # x /\ y = y0

\* what happened to the scratch object of a variant loader, in order
ScratchTrace ==
    SelectSeq(ar.ev, LAMBDA e : e.e \in {"placement_new", "move_assign", "destruct"})

\* the loader of an alternative that is not default-constructible has run
ScratchLoaded ==
    /\ pc = "loaded" /\ tyL.k = "variant" /\ x.index < Len(tyL.alts)
    /\ ~IsDefaultConstructible(tyL.alts[x.index + 1])
    /\ Happened("loader") /\ Happened("placement_new")

\* C27: the scratch object a variant loader constructs for an alternative
\* that is not default-constructible is destroyed exactly once on every
\* exit: after the value has been moved into the variant when the load
\* succeeds, before the failure is re-raised when the load fails.
C27_ScratchDestroyedOnce ==
    ScratchLoaded =>
        /\ ar.err = "" => ScratchTrace = << Ev("placement_new", ""), Ev("move_assign", ""),
                                            Ev("destruct", "") >>
        /\ ar.err # "" => (/\ ScratchTrace = << Ev("placement_new", ""),
                                                Ev("destruct", "catch") >>
                           /\ y = y0)

C27_Witness ==
    /\ ScratchLoaded /\ tyL = VariantObjFirst /\ ar.err # ""
    /\ ScratchTrace = << Ev("placement_new", ""), Ev("destruct", "catch") >>

\* the number of elements the first save put into the top node
FirstSavedLen ==
    CASE ar.b = "json" -> IF first.json = JNull THEN 0 ELSE Len(first.json.arr)
      [] ar.b = "xml" -> Len(first.nodes[1].kids)
      [] ar.b = "bin" -> Len(first.stream) - 1

\* C28: in the text backings, after saving a sequence of n elements into a
\* node that already holds a saved sequence of m > n elements, size(node)
\* is n, and a load from the node yields exactly the n elements last saved.
C28_SaveOverSavedNode ==
    (Happened("save_again") /\ ar.b # "bin" /\ FirstSavedLen > Len(x.seq)) =>
        /\ pc = "saved_again" => Size(ar, TopRef(ar.b)).r = Len(x.seq)
        /\ (pc = "loaded" /\ tyL = tyS) => (ar.err = "" /\ y = x)

\* C29: a load writes nothing to the archive it reads: after loading what
\* one save left in a fresh archive, as the type it was saved as, the
\* archive holds what it held before the load (the byte stream's read
\* cursor apart).
C29_LoadLeavesArchive ==
    (RoundTrip /\ ~Happened("read_xml")) => Content(ar) = first

\* C30: in the XML backing, after one save of a value into a fresh node, no
\* element of the tree carries two attributes of the same name.
C30_XmlAttributeNamesUnique ==
    (pc = "saved" /\ ar.b = "xml") =>
        \A h \in 1..Len(ar.nodes) :
            \A j, g \in 1..Len(ar.nodes[h].attrs) :
                ar.nodes[h].attrs[j].n = ar.nodes[h].attrs[g].n => j = g

====
